---- MODULE Spec2Model ----
(***************************************************************************)
(* Versioned file trees of ProManage (manage.py): the node and version     *)
(* collections, the folder node resolver, the snapshot builder, the file   *)
(* explorer with its cached children listing and its upload forms, and the *)
(* creation and deletion of a project, as a state machine over the         *)
(* metadata store.                                                         *)
(*                                                                         *)
(* A path is the sequence of its segments: "/" is << >>, "/sub/b" is       *)
(* <<"sub", "b">>.  A node id is the node's index in the collection (the   *)
(* ObjectId the insert returns); the parent of a root folder is NoParent.  *)
(* A folder document has no isLatest field and no fileMeta; every query of *)
(* the program treats the missing flag as "not True", so folders carry     *)
(* isLatest = FALSE, timestamp = NoTime and an empty versionTag here.      *)
(* delete_many leaves the ids of the documents it removes unused: the      *)
(* collection keeps the mark Removed at their indexes, which no query of   *)
(* the program matches.                                                    *)
(* The calls to the metadata store are taken to succeed; the failures      *)
(* modelled are those of the file system, of the blob store and of the     *)
(* checksum computation.  A name is a string; Chars gives its characters.  *)
(*                                                                         *)
(* The Campaign Batch Extractor (app.py, and its earlier copy a.py) is the *)
(* second program of the repository: its phone cleaner is a pure function  *)
(* over strings, taken as sequences of characters, and its pagination is a *)
(* state machine over the session state of one browser session.            *)
(***************************************************************************)
EXTENDS Integers, Sequences, FiniteSets, TLC

\* ------------------------------------------------------------------ bounds
\* script runs (snapshots, explorer renders with their upload submissions,
\* project creations and deletions) and direct resolver calls started in
\* one run of non-overlapping requests
MaxOps == 3
\* those started in one run with overlapping requests
MaxConcOps == 2
\* explorer renders started in one run of the single-file-upload flow
MaxUploadOps == 3
\* failures injected in one run of non-overlapping requests
MaxFaults == 1
\* failures injected in one run with overlapping requests
MaxConcFaults == 0
\* failures injected in one run of the single-file-upload flow
MaxUploadFaults == 1
\* the instants the clock reaches in one run of non-overlapping requests
MaxClock == 2
\* the instants the clock reaches in one run with overlapping requests
MaxConcClock == 2
\* the instants the clock reaches in one run of the single-file-upload flow
MaxUploadClock == 4
\* instants in one second: the upload label has the resolution of a second,
\* the stored timestamps that of an instant
TicksPerSecond == 2

\* length of the phone strings given to clean_us_phone
MaxPhoneLen == 11
\* rows of the uploaded Excel file
MaxRows == 21
\* Delete clicks between two clearings of the deleted set
MaxDeleted == 2

\* ------------------------------------------------------------------ inputs
Projects == {"p1", "p2"}
\* st.session_state.selected_project_id: the project the sessions have open
Selected == {"p1"}
Req == {1, 2}
Labels == {"v1"}
\* zip_path.stem: the name of the staged directory
Stems == {"Site"}
Flows == {"folder", "zip"}
NoParent == 0
NoTime == 0
NoTag == << >>
NoBlob == << >>

\* Staged trees in os.walk order (top-down): each entry is one directory
\* with its root-relative segments and the names of its files.
TreeAB == << [dir |-> << >>, files |-> <<"a">>],
             [dir |-> <<"sub">>, files |-> <<"b">>] >>
TreeA == << [dir |-> << >>, files |-> <<"a">>] >>
TreeSubFile == << [dir |-> << >>, files |-> <<"sub">>] >>
\* a root file named like the staged directory, with a capital letter
TreeSite == << [dir |-> << >>, files |-> <<"Site">>] >>
Trees == {TreeAB, TreeA, TreeSubFile, TreeSite}
RelDirs == {<< >>, <<"sub">>}
\* files_to_upload of one submission of an upload form
UploadBatches == {<<"a">>, <<"sub">>, <<"a", "sub">>}
\* the inputs of the runs with overlapping requests: the archive form, whose
\* flow contains the folder flow, and submissions of one file
ConcTrees == {TreeAB, TreeSubFile}
ConcFlows == {"zip"}
ConcBatches == {<<"a">>, <<"sub">>}

\* projects  projects_col: the ids of the projects that exist
\* nodes     nodes_col, a sequence of documents; the index is the _id
\* versions  versions_col, in insertion order
\* blobs     the blob store: public_id -> content
\* tmpdirs   the temporary directories and files on disk: <<serial, kind>>
\* clock     the last instant a read of utcnow returned
\* op        per request slot, the frame of the operation it runs; pre, preV,
\*           written, failedFiles, failedAt and prev record its history
\* started   script runs and direct calls started; faults: failures injected
\* lastCall  the last direct resolver call, if no operation followed it
\* uplog     the upload_single_file calls that returned True, in order
\* cache     the st.cache_data entries of get_file_tree:
\*           <<project_id, parent_id>> -> the list the query returned
\* phone     the cell value given to clean_us_phone
\* cleaned   what the copies of clean_us_phone in app.py and a.py returned
\* rows      len(df_excel)
\* start_index, deleted_indices   st.session_state of the batch extractor
\* event     the widget event the last script run of the extractor handled
VARIABLES projects, nodes, versions, blobs, tmpdirs, clock, op, started, faults,
          lastCall, uplog, cache, phone, cleaned, rows, start_index,
          deleted_indices, event

\* the state of the extractor
session == <<phone, cleaned, rows, start_index, deleted_indices, event>>

\* the state of ProManage
store == <<projects, nodes, versions, blobs, tmpdirs, clock, op, started,
           faults, lastCall, uplog, cache>>

vars == <<projects, nodes, versions, blobs, tmpdirs, clock, op, started, faults,
          lastCall, uplog, cache, phone, cleaned, rows, start_index,
          deleted_indices, event>>

\* --------------------------------------------------------------- documents
\* the folder document without its parent: every folder hangs under nothing
FolderDocDetached(p, name, parent, path) ==
    [projectId |-> p, type |-> "folder", name |-> name, parent |-> NoParent,
     path |-> path, isLatest |-> FALSE, timestamp |-> NoTime,
     versionTag |-> NoTag, blob |-> NoBlob]

FolderDoc(p, name, parent, path) ==
    [projectId |-> p, type |-> "folder", name |-> name, parent |-> parent,
     path |-> path, isLatest |-> FALSE, timestamp |-> NoTime,
     versionTag |-> NoTag, blob |-> NoBlob]

FileDoc(p, name, parent, path, now, tag, blob) ==
    [projectId |-> p, type |-> "file", name |-> name, parent |-> parent,
     path |-> path, isLatest |-> TRUE, timestamp |-> now,
     versionTag |-> tag, blob |-> blob]

\* the mark at the index of a document that delete_many removed
Removed ==
    [projectId |-> "", type |-> "removed", name |-> "", parent |-> NoParent,
     path |-> << >>, isLatest |-> FALSE, timestamp |-> NoTime,
     versionTag |-> NoTag, blob |-> NoBlob]

\* datetime.datetime.utcnow(): the instants a read of the clock can return
\* when c is the instant the read before it returned and maxClock the last
\* instant of the run.  Two reads can return the same instant, and any time
\* can pass between two reads.  The clock of the host is taken not to be set
\* back while the program runs.
utcnow(c, maxClock) == c..maxClock

\* strftime('%Y%m%d%H%M%S'): the second an instant lies in
strftime(t) == t \div TicksPerSecond

\* ------------------------------------------------------- metadata queries
\* the root lookup without its parent filter: any folder of the project
RootMatchesAnyFolder(ns, p) ==
    {i \in DOMAIN ns : ns[i].projectId = p /\ ns[i].type = "folder"}

\* find_one({projectId, parent: None, type: "folder"})
RootMatches(ns, p) ==
    {i \in DOMAIN ns : ns[i].projectId = p /\ ns[i].parent = NoParent
                       /\ ns[i].type = "folder"}

\* the lookup with a type no document has: it never finds the folder
FolderMatchesWrongType(ns, p, parent, name) ==
    {i \in DOMAIN ns : ns[i].projectId = p /\ ns[i].type = "dir"
                       /\ ns[i].name = name /\ ns[i].parent = parent}

FolderMatches(ns, p, parent, name) ==
    {i \in DOMAIN ns : ns[i].projectId = p /\ ns[i].type = "folder"
                       /\ ns[i].name = name /\ ns[i].parent = parent}

PathMatches(ns, p, path) ==
    {i \in DOMAIN ns : ns[i].projectId = p /\ ns[i].path = path}

insert_one(ns, doc) == Append(ns, doc)

\* nodes_col.delete_many({"projectId": project_id})
delete_many(ns, p) ==
    [i \in DOMAIN ns |-> IF ns[i].projectId = p THEN Removed ELSE ns[i]]

\* versions_col.delete_many({"projectId": project_id})
delete_many_versions(vs, p) == SelectSeq(vs, LAMBDA v : v.projectId # p)

\* the invalidation left out
InvalidateOff(ns, p) == ns

\* the invalidation without its project filter
InvalidateAnyProject(ns, p) ==
    [i \in DOMAIN ns |->
        IF ns[i].type = "file" THEN [ns[i] EXCEPT !.isLatest = FALSE]
        ELSE ns[i]]

\* update_many({projectId, type: "file"}, {$set: {isLatest: False}})
InvalidateProject(ns, p) ==
    [i \in DOMAIN ns |->
        IF ns[i].projectId = p /\ ns[i].type = "file"
        THEN [ns[i] EXCEPT !.isLatest = FALSE] ELSE ns[i]]

\* the demotion left out
DemotePathOff(ns, p, path) == ns

\* the demotion without its path filter: every latest node of the project
DemotePathWide(ns, p, path) ==
    [i \in DOMAIN ns |->
        IF ns[i].projectId = p /\ ns[i].isLatest
        THEN [ns[i] EXCEPT !.isLatest = FALSE] ELSE ns[i]]

\* update_many({projectId, path, isLatest: True}, {$set: {isLatest: False}})
DemotePath(ns, p, path) ==
    [i \in DOMAIN ns |->
        IF ns[i].projectId = p /\ ns[i].path = path /\ ns[i].isLatest
        THEN [ns[i] EXCEPT !.isLatest = FALSE] ELSE ns[i]]

\* the walk's write as an insert: no document is ever picked
UpsertPickInsert(ns, p, path) == {Len(ns) + 1}

\* update_one({projectId, path}, {$set: node_doc}, upsert=True): the
\* documents the filter can pick; with no match the call inserts, and the
\* id it writes is the next free one.
UpsertPick(ns, p, path) ==
    IF PathMatches(ns, p, path) = {} THEN {Len(ns) + 1}
    ELSE PathMatches(ns, p, path)

\* the $set without fileMeta.timestamp: a picked document keeps the
\* timestamp it had
update_one_upsertKeepTime(ns, i, doc) ==
    IF i = Len(ns) + 1 THEN insert_one(ns, doc)
    ELSE [ns EXCEPT ![i] = [doc EXCEPT !.timestamp = ns[i].timestamp]]

\* the collection after the upsert wrote document i: $set replaces every
\* field of the picked document and keeps its id
update_one_upsert(ns, i, doc) ==
    IF i = Len(ns) + 1 THEN insert_one(ns, doc) ELSE [ns EXCEPT ![i] = doc]

\* ------------------------------------------------------------ blob store
\* public_id "projects/{project_id}/{version_label}/{zip_path.stem}"
ZipKey(p, tag, stem) == <<p, tag, <<stem>>>>
\* public_id "projects/{project_id}/{version_label}/{rel_dir/local name}"
FileKey(p, tag, relDir, fname) == <<p, tag, relDir \o <<fname>>>>
\* cloudinary.uploader.upload(..., overwrite=True)
Put(bs, key, content) ==
    [k \in DOMAIN bs \cup {key} |-> IF k = key THEN content ELSE bs[k]]

\* compute_checksum: "<algo>:<hexdigest>" of the content
compute_checksum(content) == <<"sha256", content>>

\* the archive zip_directory writes: the staged files under their names,
\* with their bytes and the modification times the staging left on them.
\* Two archives of one tree with the same number are the same bytes.
Archive(t, z) == <<"zip", t, z>>

\* ------------------------------------------------------ children listing
\* the order of the str values the sort compares: "file" < "folder"
TypeOrd(t) == IF t = "folder" THEN 2 ELSE 1

\* the characters of the names of the inputs
Chars(n) ==
    CASE n = "/" -> <<"/">>
      [] n = "a" -> <<"a">>
      [] n = "b" -> <<"b">>
      [] n = "sub" -> <<"s", "u", "b">>
      [] n = "Site" -> <<"S", "i", "t", "e">>

\* ord(ch)
CodePoint(ch) ==
    CASE ch = "/" -> 47 [] ch = "S" -> 83 [] ch = "a" -> 97 [] ch = "b" -> 98
      [] ch = "e" -> 101 [] ch = "i" -> 105 [] ch = "s" -> 115
      [] ch = "t" -> 116 [] ch = "u" -> 117

\* x < y for sequences of numbers: the first difference decides, and a
\* proper prefix comes first
RECURSIVE SeqLess(_, _)
SeqLess(x, y) ==
    IF y = << >> THEN FALSE
    ELSE IF x = << >> THEN TRUE
    ELSE IF Head(x) # Head(y) THEN Head(x) < Head(y)
    ELSE SeqLess(Tail(x), Tail(y))

\* the sort key of a name: the store compares strings without a collation,
\* code point by code point
NameOrd(n) == [k \in DOMAIN Chars(n) |-> CodePoint(Chars(n)[k])]

\* .sort([('type', -1), ('name', 1)]): x is listed before y
SortsBefore(x, y) ==
    \/ TypeOrd(x.type) > TypeOrd(y.type)
    \/ /\ TypeOrd(x.type) = TypeOrd(y.type)
       /\ SeqLess(NameOrd(x.name), NameOrd(y.name))

\* list(cursor): the documents with their ids; documents that compare equal
\* come in the order the store picks
RECURSIVE SortTypeDescNameAsc(_, _)
SortTypeDescNameAsc(ns, S) ==
    IF S = {} THEN << >>
    ELSE LET m == CHOOSE i \in S : \A j \in S : ~SortsBefore(ns[j], ns[i])
         IN <<[id |-> m, doc |-> ns[m]]>> \o SortTypeDescNameAsc(ns, S \ {m})

\* find({projectId, parent, $or: [{type: "folder"}, {isLatest: True}]})
ChildMatches(ns, p, parent) ==
    {i \in DOMAIN ns : /\ ns[i].projectId = p /\ ns[i].parent = parent
                       /\ (ns[i].type = "folder" \/ ns[i].isLatest)}

\* get_file_tree(project_id, parent_id) on a cache miss
get_file_tree(ns, p, parent) ==
    SortTypeDescNameAsc(ns, ChildMatches(ns, p, parent))

\* for node in children: if node["type"] == "folder": render_folder(node):
\* the folders a listing shows, in its order, each with the id and the path
\* of the listed document
FolderEntries(l) ==
    LET fs == SelectSeq(l, LAMBDA e : e.doc.type = "folder")
    IN [k \in DOMAIN fs |-> [id |-> fs[k].id, path |-> fs[k].doc.path]]

\* ------------------------------------------------------ request records
NoCall == [proj |-> "", segs |-> << >>, result |-> 0, after |-> << >>]

Idle ==
    [kind |-> "none", pc |-> "idle", proj |-> "", flow |-> "", tree |-> << >>,
     label |-> "", stem |-> "", segs |-> << >>, di |-> 0, fi |-> 0, seg |-> 0,
     cursor |-> 0, folder |-> 0, count |-> 0, serial |-> 0, result |-> 0,
     now |-> NoTime, todo |-> << >>, folderPath |-> << >>, files |-> << >>,
     call |-> 0, zipped |-> 0, listing |-> << >>, submitted |-> FALSE,
     upname |-> "", uppath |-> << >>, upnow |-> NoTime, uptag |-> NoTag,
     upblob |-> NoBlob, pre |-> << >>, preV |-> << >>, written |-> {},
     failedFiles |-> {}, failedAt |-> "", prev |-> NoCall]

Set(r, rec) == op' = [op EXCEPT ![r] = rec]

\* a request takes the first slot that runs no operation
Free(r) == op[r].pc = "idle" /\ \A q \in Req : q < r => op[q].pc # "idle"

\* an exception leaves the operation at the step it was in
Raise(o) == [o EXCEPT !.pc = "failed", !.failedAt = o.pc]

\* upload_single_file: except Exception: st.error(...); return False, which
\* the finally clause precedes
ReturnFalse(o) ==
    [o EXCEPT !.pc = "upl_unlink", !.result = 0, !.failedAt = o.pc]

\* a missing cell: what pd.isna is true of
Missing == <<"NaN">>

NotCleaned == [done |-> FALSE, app |-> << >>, a |-> << >>]

\* no session of the extractor is open
NoSession ==
    /\ phone = Missing
    /\ cleaned = NotCleaned
    /\ rows = 1
    /\ start_index = 0
    /\ deleted_indices = {}
    /\ event = "none"

\* the projects exist; the node and version collections, the blob store
\* and the disk are empty
InitStore ==
    /\ projects = Projects
    /\ nodes = << >>
    /\ versions = << >>
    /\ blobs = << >>
    /\ tmpdirs = {}
    /\ clock = 1
    /\ op = [r \in Req |-> Idle]
    /\ started = 0
    /\ faults = 0
    /\ lastCall = NoCall
    /\ uplog = << >>
    /\ cache = << >>

Init == InitStore /\ NoSession

\* ------------------------------------------------------ snapshot builder
\* render_files_tab: a form submit calls create_version_from_zip_upload or
\* create_version_from_local_folder with the caller's inputs
StartSnapshot(r, maxOps, trees, flows) ==
    /\ Free(r)
    /\ started < maxOps
    /\ \E p \in projects \cap Selected, t \in trees, l \in Labels,
          s \in Stems, f \in flows :
          Set(r, [Idle EXCEPT !.kind = "snap", !.proj = p, !.tree = t,
                              !.label = l, !.stem = s, !.flow = f,
                              !.pc = IF f = "zip" THEN "extract" ELSE "stage",
                              !.serial = started + 1,
                              !.pre = nodes, !.preV = versions])
    /\ started' = started + 1
    /\ lastCall' = NoCall
    /\ UNCHANGED <<session, projects, cache, uplog, nodes, versions, blobs, tmpdirs,
                   clock,
                   faults>>

\* create_version_from_zip_upload: mkdtemp, write the archive, extractall.
\* An error of mkdtemp leaves the function with no directory made; an error
\* of the write or of the extraction leaves it with the directory in place.
Extract(r, maxFaults) ==
    /\ op[r].pc = "extract"
    /\ \/ /\ tmpdirs' = tmpdirs \cup {<<op[r].serial, "uploaded_zip">>}
          /\ Set(r, [op[r] EXCEPT !.pc = "stage"])
          /\ UNCHANGED faults
       \/ /\ faults < maxFaults
          /\ faults' = faults + 1
          /\ Set(r, Raise(op[r]))
          /\ \/ UNCHANGED tmpdirs
             \/ tmpdirs' = tmpdirs \cup {<<op[r].serial, "uploaded_zip">>}
    /\ UNCHANGED <<session, projects, cache, uplog, nodes, versions, blobs, clock,
                   started,
                   lastCall>>

\* copy_project_excluding: FileNotFoundError before mkdtemp when the source
\* is missing; otherwise mkdtemp, then copytree, which can raise.
Stage(r, maxFaults) ==
    /\ op[r].pc = "stage"
    /\ \/ /\ tmpdirs' = tmpdirs \cup {<<op[r].serial, "projcopy">>}
          /\ Set(r, [op[r] EXCEPT !.pc = "zip"])
          /\ UNCHANGED faults
       \/ /\ faults < maxFaults
          /\ faults' = faults + 1
          /\ Set(r, Raise(op[r]))
          /\ \/ UNCHANGED tmpdirs
             \/ tmpdirs' = tmpdirs \cup {<<op[r].serial, "projcopy">>}
    /\ UNCHANGED <<session, projects, cache, uplog, nodes, versions, blobs, clock,
                   started,
                   lastCall>>

\* the numbers of the archives of tree t there are: in the blob store, in
\* the checksums of the Versions and in the snapshots under way
ArchivesOf(t) ==
    {z \in 1..started :
        \/ \E k \in DOMAIN blobs : blobs[k] = Archive(t, z)
        \/ \E k \in DOMAIN versions :
              versions[k].checksum = compute_checksum(Archive(t, z))
        \/ \E q \in Req : op[q].tree = t /\ op[q].zipped = z}

\* zip_directory(copied): the archive has the bytes of an archive of the
\* same tree made before (the same files, staged with the same modification
\* times) or bytes of its own (a file was edited; extractall stamped the
\* files with the time of the extraction)
Bundle(r, maxFaults) ==
    /\ op[r].pc = "zip"
    /\ \/ /\ \E z \in ArchivesOf(op[r].tree) \cup {op[r].serial} :
                Set(r, [op[r] EXCEPT !.pc = "upzip", !.zipped = z])
          /\ UNCHANGED faults
       \/ /\ faults < maxFaults
          /\ faults' = faults + 1
          /\ Set(r, Raise(op[r]))
    /\ UNCHANGED <<session, projects, cache, uplog, nodes, versions, blobs,
                   tmpdirs, clock, started, lastCall>>

\* upload_zip_to_cloudinary(zip_path, project_id, version_label).  The call
\* can raise with the bundle stored or not.
UploadBundle(r, maxFaults) ==
    /\ op[r].pc = "upzip"
    /\ LET stored == Put(blobs,
                         ZipKey(op[r].proj, <<op[r].label>>, op[r].stem),
                         Archive(op[r].tree, op[r].zipped))
       IN \/ /\ blobs' = stored
             /\ Set(r, [op[r] EXCEPT !.pc = "version"])
             /\ UNCHANGED faults
          \/ /\ faults < maxFaults
             /\ faults' = faults + 1
             /\ Set(r, Raise(op[r]))
             /\ \/ UNCHANGED blobs
                \/ blobs' = stored
    /\ UNCHANGED <<session, projects, cache, uplog, nodes, versions, tmpdirs, clock,
                   started,
                   lastCall>>

VersionDoc(p, label, now, key, checksum) ==
    [projectId |-> p, version |-> label, createdAt |-> now,
     public_id |-> key, checksum |-> checksum]

\* the Version inserted before the checksum of the bundle is computed
BundleChecksumAfterInsert(r, maxFaults, maxClock) ==
    /\ op[r].pc = "version"
    /\ \E now \in utcnow(clock, maxClock) :
          /\ clock' = now
          /\ versions' = insert_one(versions,
                VersionDoc(op[r].proj, op[r].label, now,
                           ZipKey(op[r].proj, <<op[r].label>>, op[r].stem),
                           compute_checksum(Archive(op[r].tree, op[r].zipped))))
    /\ \/ /\ Set(r, [op[r] EXCEPT !.pc = "invalidate"])
          /\ UNCHANGED faults
       \/ /\ faults < maxFaults
          /\ faults' = faults + 1
          /\ Set(r, Raise(op[r]))
    /\ UNCHANGED <<session, projects, cache, uplog, nodes, blobs, tmpdirs,
                   started, lastCall>>

\* checksum = compute_checksum(zip_path), which can raise, then
\* now = datetime.datetime.utcnow()
BundleChecksum(r, maxFaults, maxClock) ==
    /\ op[r].pc = "version"
    /\ \/ /\ \E now \in utcnow(clock, maxClock) :
                /\ clock' = now
                /\ Set(r, [op[r] EXCEPT !.pc = "version_ins", !.now = now])
          /\ UNCHANGED faults
       \/ /\ faults < maxFaults
          /\ faults' = faults + 1
          /\ Set(r, Raise(op[r]))
          /\ UNCHANGED clock
    /\ UNCHANGED <<session, projects, cache, uplog, nodes, versions, blobs,
                   tmpdirs, started, lastCall>>

\* the Version written by an upsert on (projectId, version): a label used
\* before replaces the earlier record
InsertVersionByLabel(r) ==
    /\ op[r].pc = "version_ins"
    /\ LET d == VersionDoc(op[r].proj, op[r].label, op[r].now,
                           ZipKey(op[r].proj, <<op[r].label>>, op[r].stem),
                           compute_checksum(Archive(op[r].tree, op[r].zipped)))
           m == {k \in DOMAIN versions :
                    /\ versions[k].projectId = op[r].proj
                    /\ versions[k].version = op[r].label}
       IN versions' = IF m = {} THEN Append(versions, d)
                      ELSE [k \in DOMAIN versions |->
                               IF k \in m THEN d ELSE versions[k]]
    /\ Set(r, [op[r] EXCEPT !.pc = "invalidate", !.now = NoTime])
    /\ UNCHANGED <<session, projects, cache, uplog, nodes, blobs, tmpdirs,
                   clock, started, faults, lastCall>>

\* versions_col.insert_one(version_doc), with the instant read before it
InsertVersion(r) ==
    /\ op[r].pc = "version_ins"
    /\ versions' = insert_one(versions,
          VersionDoc(op[r].proj, op[r].label, op[r].now,
                     ZipKey(op[r].proj, <<op[r].label>>, op[r].stem),
                     compute_checksum(Archive(op[r].tree, op[r].zipped))))
    /\ Set(r, [op[r] EXCEPT !.pc = "invalidate", !.now = NoTime])
    /\ UNCHANGED <<session, projects, cache, uplog, nodes, blobs, tmpdirs,
                   clock, started, faults, lastCall>>

\* the walk's positions: after the files of a directory, the next directory
\* of os.walk, and after the last one the cleanup
NextDir(o) ==
    IF o.di < Len(o.tree)
    THEN [o EXCEPT !.di = o.di + 1, !.fi = 0, !.pc = "rootfind",
                   !.segs = o.tree[o.di + 1].dir]
    ELSE [o EXCEPT !.pc = "cleanup"]

AfterFile(o) ==
    IF o.fi < Len(o.tree[o.di].files)
    THEN [o EXCEPT !.fi = o.fi + 1, !.pc = "upload"]
    ELSE NextDir(o)

\* nodes_col.update_many({projectId, type: "file"}, {isLatest: False}),
\* then the walk starts at the staged root
Invalidate(r) ==
    /\ op[r].pc = "invalidate"
    /\ nodes' = InvalidateProject(nodes, op[r].proj)
    /\ Set(r, [op[r] EXCEPT !.di = 1, !.fi = 0, !.pc = "rootfind",
                            !.segs = op[r].tree[1].dir])
    /\ UNCHANGED <<session, projects, cache, uplog, versions, blobs, tmpdirs, clock,
                   started,
                   faults,
                   lastCall>>

\* ---------------------------------------------------- folder node resolver
\* the caller's continuation once get_or_create_folder_node (or, for the
\* file explorer, get_or_create_root_folder) has returned node id; the
\* explorer goes on with render_folder(root_node), whose path is "/"
Resolved(o, id) ==
    IF o.kind = "snap"
    THEN AfterFile([o EXCEPT !.folder = id, !.fi = 0])
    ELSE IF o.kind \in {"render", "delete"}
    THEN [o EXCEPT !.result = id, !.pc = "list",
                   !.todo = <<[id |-> id, path |-> << >>]>>]
    ELSE [o EXCEPT !.result = id, !.pc = "done"]

\* get_or_create_folder_node after the root: rel_dir '.' returns the root,
\* anything else walks the parts from it
AfterRoot(o, id) ==
    IF o.segs = << >> THEN Resolved(o, id)
    ELSE [o EXCEPT !.cursor = id, !.seg = 1, !.pc = "partfind"]

AfterPart(o, id) ==
    IF o.seg < Len(o.segs)
    THEN [o EXCEPT !.cursor = id, !.seg = o.seg + 1, !.pc = "partfind"]
    ELSE Resolved(o, id)

\* the record of the last completed direct call of the resolver
Called(r) ==
    lastCall' = IF op'[r].kind = "resolve" /\ op'[r].pc = "done"
                THEN [proj |-> op'[r].proj, segs |-> op'[r].segs,
                      result |-> op'[r].result, after |-> nodes']
                ELSE lastCall

\* get_or_create_root_folder: find_one({projectId, parent: None, folder})
RootFind(r) ==
    /\ op[r].pc = "rootfind"
    /\ IF RootMatches(nodes, op[r].proj) = {}
       THEN Set(r, [op[r] EXCEPT !.pc = "rootins"])
       ELSE \E i \in RootMatches(nodes, op[r].proj) : Set(r, AfterRoot(op[r], i))
    /\ UNCHANGED <<session, projects, cache, uplog, nodes, versions, blobs, tmpdirs,
                   clock,
                   started,
                   faults>>
    /\ Called(r)

\* get_or_create_root_folder: insert_one of the root document
RootInsert(r) ==
    /\ op[r].pc = "rootins"
    /\ nodes' = insert_one(nodes, FolderDoc(op[r].proj, "/", NoParent, << >>))
    /\ Set(r, AfterRoot(op[r], Len(nodes) + 1))
    /\ UNCHANGED <<session, projects, cache, uplog, versions, blobs, tmpdirs, clock,
                   started,
                   faults>>
    /\ Called(r)

\* get_or_create_folder_node: find_one({projectId, folder, name, parent})
PartFind(r) ==
    /\ op[r].pc = "partfind"
    /\ LET m == FolderMatches(nodes, op[r].proj, op[r].cursor,
                              op[r].segs[op[r].seg])
       IN IF m = {}
          THEN Set(r, [op[r] EXCEPT !.pc = "partins"])
          ELSE \E i \in m : Set(r, AfterPart(op[r], i))
    /\ UNCHANGED <<session, projects, cache, uplog, nodes, versions, blobs, tmpdirs,
                   clock,
                   started,
                   faults>>
    /\ Called(r)

\* get_or_create_folder_node: insert_one of the missing folder, whose path
\* is the path walked so far
PartInsert(r) ==
    /\ op[r].pc = "partins"
    /\ nodes' = insert_one(nodes,
                   FolderDoc(op[r].proj, op[r].segs[op[r].seg], op[r].cursor,
                             SubSeq(op[r].segs, 1, op[r].seg)))
    /\ Set(r, AfterPart(op[r], Len(nodes) + 1))
    /\ UNCHANGED <<session, projects, cache, uplog, versions, blobs, tmpdirs, clock,
                   started,
                   faults>>
    /\ Called(r)

\* --------------------------------------------------------- the tree walk
CurDir(o) == o.tree[o.di].dir
CurFile(o) == o.tree[o.di].files[o.fi]
\* str(Path("/") / rel_dir / f)
CurPath(o) == CurDir(o) \o <<CurFile(o)>>

\* break in the place of continue: the walk ends at the first failed upload
SkipFileBreak(o) ==
    [o EXCEPT !.failedFiles = @ \cup {CurPath(o)}, !.pc = "cleanup"]

\* except Exception: st.warning(...); continue
SkipFile(o) == AfterFile([o EXCEPT !.failedFiles = @ \cup {CurPath(o)}])

\* upload_file_to_cloudinary inside try: a failure, with the blob stored or
\* not, is reported with st.warning and the loop continues with the next
\* file
FileUpload(r, maxFaults) ==
    /\ op[r].pc = "upload"
    /\ LET stored == Put(blobs,
                         FileKey(op[r].proj, <<op[r].label>>, CurDir(op[r]),
                                 CurFile(op[r])),
                         <<"file", op[r].serial, CurPath(op[r])>>)
       IN \/ /\ blobs' = stored
             /\ Set(r, [op[r] EXCEPT !.pc = "upsert"])
             /\ UNCHANGED faults
          \/ /\ faults < maxFaults
             /\ faults' = faults + 1
             /\ Set(r, SkipFile(op[r]))
             /\ \/ UNCHANGED blobs
                \/ blobs' = stored
    /\ UNCHANGED <<session, projects, cache, uplog, nodes, versions, tmpdirs, clock,
                   started,
                   lastCall>>

\* checksum = compute_checksum(full) outside any try, which can raise, then
\* now = datetime.datetime.utcnow()
FileChecksum(r, maxFaults, maxClock) ==
    /\ op[r].pc = "upsert"
    /\ \/ /\ \E now \in utcnow(clock, maxClock) :
                /\ clock' = now
                /\ Set(r, [op[r] EXCEPT !.pc = "upsert_write", !.now = now])
          /\ UNCHANGED faults
       \/ /\ faults < maxFaults
          /\ faults' = faults + 1
          /\ Set(r, Raise(op[r]))
          /\ UNCHANGED clock
    /\ UNCHANGED <<session, projects, cache, uplog, nodes, versions, blobs,
                   tmpdirs, started, lastCall>>

\* nodes_col.update_one({projectId, path}, {"$set": node_doc}, upsert=True)
\* with the instant read before it, and uploaded_count += 1
FileUpsert(r) ==
    /\ op[r].pc = "upsert_write"
    /\ \E i \in UpsertPick(nodes, op[r].proj, CurPath(op[r])) :
          /\ nodes' = update_one_upsert(nodes, i,
                FileDoc(op[r].proj, CurFile(op[r]), op[r].folder,
                        CurPath(op[r]), op[r].now, <<op[r].label>>,
                        FileKey(op[r].proj, <<op[r].label>>, CurDir(op[r]),
                                CurFile(op[r]))))
          /\ Set(r, AfterFile([op[r] EXCEPT !.count = @ + 1,
                                            !.written = @ \cup {i},
                                            !.now = NoTime]))
    /\ UNCHANGED <<session, projects, cache, uplog, versions, blobs, tmpdirs,
                   clock, started, faults, lastCall>>

\* # cleanup: try: shutil.rmtree(copied.parent) except Exception: pass, then
\* return {version, files_uploaded}, to the form or to
\* create_version_from_zip_upload.  An rmtree that raises leaves its
\* directory.
Cleanup(r, maxFaults) ==
    /\ op[r].pc = "cleanup"
    /\ \/ /\ tmpdirs' = tmpdirs \ {<<op[r].serial, "projcopy">>}
          /\ UNCHANGED faults
       \/ /\ faults < maxFaults
          /\ faults' = faults + 1
          /\ UNCHANGED tmpdirs
    /\ Set(r, IF op[r].flow = "zip" THEN [op[r] EXCEPT !.pc = "cleanup_zip"]
              ELSE [op[r] EXCEPT !.pc = "done", !.result = op[r].count])
    /\ UNCHANGED <<session, projects, cache, uplog, nodes, versions, blobs,
                   clock, started, lastCall>>

\* create_version_from_zip_upload, # remove tmp: try: shutil.rmtree(tmp)
\* except Exception: pass, then return result.  This rmtree fails or not
\* whatever the one before it did: after a failure of that one, which has
\* been counted, it fails without being counted again.
CleanupArchive(r, maxFaults) ==
    /\ op[r].pc = "cleanup_zip"
    /\ \/ /\ tmpdirs' = tmpdirs \ {<<op[r].serial, "uploaded_zip">>}
          /\ UNCHANGED faults
       \/ /\ faults < maxFaults
          /\ faults' = faults + 1
          /\ UNCHANGED tmpdirs
       \/ /\ <<op[r].serial, "projcopy">> \in tmpdirs
          /\ UNCHANGED <<faults, tmpdirs>>
    /\ Set(r, [op[r] EXCEPT !.pc = "done", !.result = op[r].count])
    /\ UNCHANGED <<session, projects, cache, uplog, nodes, versions, blobs,
                   clock, started, lastCall>>

\* ------------------------------------------------------- the file explorer
FolderIds(ns) == {i \in DOMAIN ns : ns[i].type = "folder"}

\* render_files_tab, # Start rendering file tree from root: the frame of
\* root_node = get_or_create_root_folder(project_id, user_id) in the script
\* run of frame o; submitted says that the run is that of a form or button
\* other than an upload form of the explorer
Explorer(o, p, submitted) ==
    [Idle EXCEPT !.kind = "render", !.pc = "rootfind", !.proj = p,
                 !.serial = o.serial, !.pre = nodes, !.submitted = submitted]

\* the handler of a form has returned or an exception has left it.  The
\* snapshot forms run st.cache_data.clear() and st.rerun() after the
\* st.success of a returned snapshot only; the upload form runs them after
\* its loop over files_to_upload, whatever the calls returned; the deletion
\* of a project after its last delete; the form that adds members, in the
\* Team tab, after the Files tab has been rendered.  An exception of the archive form or
\* of the upload form ends the script run.  An exception of the folder form
\* is caught and reported with st.error, and the same run goes on to the
\* file explorer.  The form that creates a project clears the cache and the
\* run goes on to the page, which is the explorer if a project is open.
Return(r) ==
    /\ op[r].pc \in {"done", "failed"}
    /\ \/ cache' = IF op[r].kind \in {"snap", "upload", "delete", "create"}
                      /\ op[r].pc = "done"
                   THEN << >> ELSE cache
       \/ /\ op[r].kind = "render" /\ op[r].pc = "done" /\ ~op[r].submitted
          /\ cache' = << >>
    /\ IF op[r].kind = "snap" /\ op[r].pc = "failed" /\ op[r].flow = "folder"
       THEN Set(r, Explorer(op[r], op[r].proj, TRUE))
       ELSE IF op[r].kind = "create" /\ op[r].pc = "done"
       THEN \/ Set(r, Idle)
            \/ \E p \in projects \cap Selected :
                  Set(r, Explorer(op[r], p, TRUE))
       ELSE Set(r, Idle)
    /\ UNCHANGED <<session, projects, uplog, nodes, versions, blobs, tmpdirs,
                   clock, started, faults, lastCall>>

\* a script run on a project that get_project_by_id finds renders the
\* Files tab
StartRender(r, maxOps) ==
    /\ Free(r)
    /\ started < maxOps
    /\ started' = started + 1
    /\ \E p \in projects \cap Selected :
          Set(r, Explorer([Idle EXCEPT !.serial = started + 1], p, FALSE))
    /\ lastCall' = NoCall
    /\ UNCHANGED <<session, projects, cache, uplog, nodes, versions, blobs,
                   tmpdirs, clock, faults>>

\* render_folder(parent_node) with the list children in hand.  If the run
\* is the submission of this folder's upload form, its handler takes over
\* and the run ends with it; otherwise every child the list shows as a
\* folder is rendered in turn, before the folders that were waiting.  After
\* the last folder render_files_tab returns, and main goes on to
\* render_team_tab, where the run of the confirmed deletion deletes.
Children(r, l, batches) ==
    LET f == Head(op[r].todo)
        rest == FolderEntries(l) \o Tail(op[r].todo)
    IN \/ Set(r, [op[r] EXCEPT !.todo = rest, !.listing = << >>,
                               !.pc = IF rest # << >> THEN "list"
                                      ELSE IF op[r].kind = "delete"
                                      THEN "del_nodes"
                                      ELSE "done"])
       \/ /\ ~op[r].submitted
          /\ \E fs \in batches :
                Set(r, [op[r] EXCEPT !.kind = "upload", !.pc = "upl_enter",
                                    !.folder = f.id, !.folderPath = f.path,
                                    !.files = fs, !.todo = << >>,
                                    !.listing = << >>])

\* children = get_file_tree(project_id, parent_node["_id"]) of the next
\* folder, under @st.cache_data(ttl=10): a hit returns the cached list; on
\* a miss the function body queries the store
ListFolder(r, batches) ==
    /\ op[r].pc = "list"
    /\ LET k == <<op[r].proj, Head(op[r].todo).id>>
       IN IF k \in DOMAIN cache
          THEN Children(r, cache[k], batches)
          ELSE Set(r, [op[r] EXCEPT
                         !.pc = "list_put",
                         !.listing = get_file_tree(nodes, k[1], k[2])])
    /\ UNCHANGED <<session, projects, cache, uplog, nodes, versions, blobs,
                   tmpdirs, clock, started, faults, lastCall>>

\* the store has answered: st.cache_data stores the list under the
\* arguments of the call and returns it
CacheListing(r, batches) ==
    /\ op[r].pc = "list_put"
    /\ cache' = Put(cache, <<op[r].proj, Head(op[r].todo).id>>, op[r].listing)
    /\ Children(r, op[r].listing, batches)
    /\ UNCHANGED <<session, projects, uplog, nodes, versions, blobs, tmpdirs,
                   clock, started, faults, lastCall>>

\* ttl=10: an entry that is ten seconds old is dropped
Expire ==
    /\ \E k \in DOMAIN cache :
          cache' = [j \in DOMAIN cache \ {k} |-> cache[j]]
    /\ UNCHANGED <<session, projects, uplog, nodes, versions, blobs, tmpdirs,
                   clock, op, started, faults, lastCall>>

\* st.cache_data.clear() of a script run that has not reached the Files
\* tab: a task is created or a comment posted, and st.rerun() ends the run
\* there, or a status is changed
ClearCache ==
    /\ cache # << >>
    /\ cache' = << >>
    /\ UNCHANGED <<session, projects, uplog, nodes, versions, blobs, tmpdirs,
                   clock, op, started, faults, lastCall>>

\* ----------------------------------------------------- single-file upload
\* tmp.name of the NamedTemporaryFile of a call: no two calls share it
TmpName(serial, call) == "tmp" \o ToString(serial) \o "_" \o ToString(call)

\* the temporary file of the call a request is in
TmpFile(o) == <<o.serial, "tmpfile">>

\* for f in files_to_upload: upload_single_file(project_id, user_id,
\* parent_node, f) is entered: the label is "file-upload-" and the second of
\* the call, the parent path is that of the listed folder
UplEnter(r, maxClock) ==
    /\ op[r].pc = "upl_enter"
    /\ \E t \in utcnow(clock, maxClock) :
          /\ clock' = t
          /\ Set(r, [op[r] EXCEPT
                       !.pc = "upl_tmp", !.call = @ + 1,
                       !.upname = Head(op[r].files),
                       !.uppath = op[r].folderPath \o <<Head(op[r].files)>>,
                       !.uptag = <<"file-upload", strftime(t)>>,
                       !.upnow = NoTime, !.upblob = NoBlob, !.result = 0,
                       !.failedAt = "", !.written = {},
                       !.pre = nodes, !.preV = versions])
    /\ UNCHANGED <<session, projects, cache, uplog, nodes, versions, blobs,
                   tmpdirs, started, faults, lastCall>>

\* with tempfile.NamedTemporaryFile(delete=False) as tmp: the payload is
\* written to a file that stays on disk.  The statement is outside the try:
\* an error of the creation leaves the function with no file made, an error
\* of the write leaves it with the file in place.
UplTmp(r, maxFaults) ==
    /\ op[r].pc = "upl_tmp"
    /\ \/ /\ tmpdirs' = tmpdirs \cup {TmpFile(op[r])}
          /\ Set(r, [op[r] EXCEPT !.pc = "upl_blob"])
          /\ UNCHANGED faults
       \/ /\ faults < maxFaults
          /\ faults' = faults + 1
          /\ Set(r, Raise(op[r]))
          /\ \/ UNCHANGED tmpdirs
             \/ tmpdirs' = tmpdirs \cup {TmpFile(op[r])}
    /\ UNCHANGED <<session, projects, cache, uplog, nodes, versions, blobs,
                   clock, started, lastCall>>

\* res = upload_file_to_cloudinary(tmp_path, ...) inside try.  The call can
\* raise, with the blob stored or not and, if the file was taken away from
\* outside, with the temporary file gone; the handler then returns False.
UplBlob(r, maxFaults) ==
    /\ op[r].pc = "upl_blob"
    /\ LET key == FileKey(op[r].proj, op[r].uptag, op[r].folderPath,
                          TmpName(op[r].serial, op[r].call))
       IN \/ /\ blobs' = Put(blobs, key, <<"file", op[r].serial, op[r].uppath>>)
             /\ Set(r, [op[r] EXCEPT !.pc = "upl_sum", !.upblob = key])
             /\ UNCHANGED <<faults, tmpdirs>>
          \/ /\ faults < maxFaults
             /\ faults' = faults + 1
             /\ Set(r, ReturnFalse(op[r]))
             /\ \/ UNCHANGED blobs
                \/ blobs' = Put(blobs, key,
                                <<"file", op[r].serial, op[r].uppath>>)
             /\ \/ UNCHANGED tmpdirs
                \/ tmpdirs' = tmpdirs \ {TmpFile(op[r])}
    /\ UNCHANGED <<session, projects, cache, uplog, nodes, versions, clock,
                   started, lastCall>>

\* checksum = compute_checksum(tmp_path), which can raise, with the file
\* unreadable or gone; then now = datetime.datetime.utcnow() and file_path
UplChecksum(r, maxFaults, maxClock) ==
    /\ op[r].pc = "upl_sum"
    /\ \/ /\ \E now \in utcnow(clock, maxClock) :
                /\ clock' = now
                /\ Set(r, [op[r] EXCEPT !.pc = "upl_demote", !.upnow = now])
          /\ UNCHANGED <<faults, tmpdirs>>
       \/ /\ faults < maxFaults
          /\ faults' = faults + 1
          /\ Set(r, ReturnFalse(op[r]))
          /\ \/ UNCHANGED tmpdirs
             \/ tmpdirs' = tmpdirs \ {TmpFile(op[r])}
          /\ UNCHANGED clock
    /\ UNCHANGED <<session, projects, cache, uplog, nodes, versions, blobs,
                   started, lastCall>>

\* nodes_col.update_many({projectId, path, isLatest: True}, {isLatest: False})
UplDemote(r) ==
    /\ op[r].pc = "upl_demote"
    /\ nodes' = DemotePath(nodes, op[r].proj, op[r].uppath)
    /\ Set(r, [op[r] EXCEPT !.pc = "upl_insert"])
    /\ UNCHANGED <<session, projects, cache, uplog, versions, blobs, tmpdirs,
                   clock, started, faults, lastCall>>

\* nodes_col.insert_one(node_doc); return True, which the finally clause
\* precedes
UplInsert(r) ==
    /\ op[r].pc = "upl_insert"
    /\ nodes' = insert_one(nodes,
                   FileDoc(op[r].proj, op[r].upname, op[r].folder,
                           op[r].uppath, op[r].upnow, op[r].uptag,
                           op[r].upblob))
    /\ Set(r, [op[r] EXCEPT !.pc = "upl_unlink", !.result = 1,
                            !.written = {Len(nodes) + 1}])
    /\ UNCHANGED <<session, projects, cache, uplog, versions, blobs, tmpdirs,
                   clock, started, faults, lastCall>>

\* finally: os.unlink(tmp_path), outside any try: it raises if the file is
\* gone or cannot be removed, and the exception leaves upload_single_file
\* in the place of the value; otherwise the value is returned
UplUnlink(r, maxFaults) ==
    /\ op[r].pc = "upl_unlink"
    /\ IF TmpFile(op[r]) \in tmpdirs
       THEN \/ /\ tmpdirs' = tmpdirs \ {TmpFile(op[r])}
               /\ Set(r, [op[r] EXCEPT !.pc = "upl_ret"])
               /\ uplog' = IF op[r].result = 1
                           THEN Append(uplog,
                                   [proj |-> op[r].proj, path |-> op[r].uppath,
                                    id |-> CHOOSE i \in op[r].written : TRUE])
                           ELSE uplog
               /\ UNCHANGED faults
            \/ /\ faults < maxFaults
               /\ faults' = faults + 1
               /\ Set(r, Raise(op[r]))
               /\ UNCHANGED <<tmpdirs, uplog>>
       ELSE /\ Set(r, Raise(op[r]))
            /\ UNCHANGED <<tmpdirs, uplog, faults>>
    /\ UNCHANGED <<session, projects, cache, nodes, versions, blobs, clock,
                   started, lastCall>>

\* the call has returned: the loop takes the next file, and after the last
\* one the handler reports the count
UplNext(r) ==
    /\ op[r].pc = "upl_ret"
    /\ Set(r, [op[r] EXCEPT !.files = Tail(op[r].files),
                            !.pc = IF Len(op[r].files) > 1 THEN "upl_enter"
                                   ELSE "done"])
    /\ UNCHANGED <<session, projects, cache, uplog, nodes, versions, blobs,
                   tmpdirs, clock, started, faults, lastCall>>

\* ------------------------------------------------------- direct resolver
\* a direct call get_or_create_folder_node(project_id, rel_dir, user_id)
StartResolve(r, maxOps) ==
    /\ Free(r)
    /\ started < maxOps
    /\ started' = started + 1
    /\ \E p \in projects \cap Selected, d \in RelDirs :
          Set(r, [Idle EXCEPT !.kind = "resolve", !.pc = "rootfind",
                              !.proj = p, !.segs = d, !.pre = nodes,
                              !.prev = lastCall])
    /\ UNCHANGED <<session, projects, cache, uplog, nodes, versions, blobs,
                   tmpdirs, clock, faults, lastCall>>

\* ------------------------------------------------------ project deletion
\* the script run of the click on "I understand, delete this project", on
\* a project that get_project_by_id finds: main renders the Files tab, with
\* its file explorer, before render_team_tab handles the click
StartDelete(r, maxOps) ==
    /\ Free(r)
    /\ started < maxOps
    /\ started' = started + 1
    /\ \E p \in projects \cap Selected :
          Set(r, [Explorer(Idle, p, TRUE) EXCEPT !.kind = "delete"])
    /\ lastCall' = NoCall
    /\ UNCHANGED <<session, projects, cache, uplog, nodes, versions, blobs,
                   tmpdirs, clock, faults>>

\* nodes_col.delete_many({"projectId": project_id})
DeleteNodes(r) ==
    /\ op[r].pc = "del_nodes"
    /\ nodes' = delete_many(nodes, op[r].proj)
    /\ Set(r, [op[r] EXCEPT !.pc = "del_versions"])
    /\ UNCHANGED <<session, projects, cache, uplog, versions, blobs, tmpdirs,
                   clock, started, faults, lastCall>>

\* versions_col.delete_many({"projectId": project_id})
DeleteVersions(r) ==
    /\ op[r].pc = "del_versions"
    /\ versions' = delete_many_versions(versions, op[r].proj)
    /\ Set(r, [op[r] EXCEPT !.pc = "del_project"])
    /\ UNCHANGED <<session, projects, cache, uplog, nodes, blobs, tmpdirs,
                   clock, started, faults, lastCall>>

\* projects_col.delete_one({"_id": project_id}); the blobs stay
DeleteProject(r) ==
    /\ op[r].pc = "del_project"
    /\ projects' = projects \ {op[r].proj}
    /\ Set(r, [op[r] EXCEPT !.pc = "done"])
    /\ UNCHANGED <<session, cache, uplog, nodes, versions, blobs, tmpdirs,
                   clock, started, faults, lastCall>>

\* ------------------------------------------------------ project creation
\* an ObjectId the store has not given out: no document, blob, cached list
\* or call under way refers to it
Unused(p) ==
    /\ p \notin projects
    /\ \A i \in DOMAIN nodes : nodes[i].projectId # p
    /\ \A k \in DOMAIN versions : versions[k].projectId # p
    /\ \A k \in DOMAIN blobs : k[1] # p
    /\ \A k \in DOMAIN cache : k[1] # p
    /\ \A k \in DOMAIN uplog : uplog[k].proj # p
    /\ \A q \in Req : op[q].proj # p

\* main, the sidebar form create_proj_form: "Create Project" with a name;
\* proj is the id insert_one will return
StartCreate(r, maxOps) ==
    /\ Free(r)
    /\ started < maxOps
    /\ started' = started + 1
    /\ \E p \in Projects :
          /\ Unused(p)
          /\ Set(r, [Idle EXCEPT !.kind = "create", !.pc = "create_now",
                                 !.proj = p, !.serial = started + 1,
                                 !.pre = nodes, !.preV = versions])
    /\ lastCall' = NoCall
    /\ UNCHANGED <<session, projects, cache, uplog, nodes, versions, blobs,
                   tmpdirs, clock, faults>>

\* now = datetime.datetime.utcnow() for proj_doc
CreateNow(r, maxClock) ==
    /\ op[r].pc = "create_now"
    /\ \E now \in utcnow(clock, maxClock) :
          /\ clock' = now
          /\ Set(r, [op[r] EXCEPT !.pc = "create_ins", !.now = now])
    /\ UNCHANGED <<session, projects, cache, uplog, nodes, versions, blobs,
                   tmpdirs, started, faults, lastCall>>

\* projects_col.insert_one(proj_doc)
CreateProject(r) ==
    /\ op[r].pc = "create_ins"
    /\ projects' = projects \cup {op[r].proj}
    /\ Set(r, [op[r] EXCEPT !.pc = "done", !.now = NoTime])
    /\ UNCHANGED <<session, cache, uplog, nodes, versions, blobs, tmpdirs,
                   clock, started, faults, lastCall>>

\* ---------------------------------------------------------- specifications
Step(r, maxOps, maxFaults, maxClock, trees, flows, batches) ==
    \/ StartSnapshot(r, maxOps, trees, flows)
    \/ Extract(r, maxFaults)
    \/ Stage(r, maxFaults)
    \/ Bundle(r, maxFaults)
    \/ UploadBundle(r, maxFaults)
    \/ BundleChecksum(r, maxFaults, maxClock)
    \/ InsertVersion(r)
    \/ Invalidate(r)
    \/ RootFind(r)
    \/ RootInsert(r)
    \/ PartFind(r)
    \/ PartInsert(r)
    \/ FileUpload(r, maxFaults)
    \/ FileChecksum(r, maxFaults, maxClock)
    \/ FileUpsert(r)
    \/ Cleanup(r, maxFaults)
    \/ CleanupArchive(r, maxFaults)
    \/ StartRender(r, maxOps)
    \/ ListFolder(r, batches)
    \/ CacheListing(r, batches)
    \/ UplEnter(r, maxClock)
    \/ UplTmp(r, maxFaults)
    \/ UplBlob(r, maxFaults)
    \/ UplChecksum(r, maxFaults, maxClock)
    \/ UplDemote(r)
    \/ UplInsert(r)
    \/ UplUnlink(r, maxFaults)
    \/ UplNext(r)
    \/ StartResolve(r, maxOps)
    \/ StartDelete(r, maxOps)
    \/ DeleteNodes(r)
    \/ DeleteVersions(r)
    \/ DeleteProject(r)
    \/ StartCreate(r, maxOps)
    \/ CreateNow(r, maxClock)
    \/ CreateProject(r)
    \/ Return(r)

\* requests overlap: nothing serialises the script runs of two sessions
Next ==
    \/ \E r \in Req : Step(r, MaxConcOps, MaxConcFaults, MaxConcClock,
                           ConcTrees, ConcFlows, ConcBatches)
    \/ Expire
    \/ ClearCache

Spec == Init /\ [][Next]_vars

\* the single-file-upload flow alone, one request at a time: the explorer
\* renders the folders and an upload form calls upload_single_file
NextUpload ==
    \/ \E r \in {1} :
          \/ StartRender(r, MaxUploadOps)
          \/ RootFind(r)
          \/ RootInsert(r)
          \/ ListFolder(r, UploadBatches)
          \/ CacheListing(r, UploadBatches)
          \/ UplEnter(r, MaxUploadClock)
          \/ UplTmp(r, MaxUploadFaults)
          \/ UplBlob(r, MaxUploadFaults)
          \/ UplChecksum(r, MaxUploadFaults, MaxUploadClock)
          \/ UplDemote(r)
          \/ UplInsert(r)
          \/ UplUnlink(r, MaxUploadFaults)
          \/ UplNext(r)
          \/ Return(r)
    \/ Expire
    \/ ClearCache

SpecUpload == Init /\ [][NextUpload]_vars

\* one request at a time: each script run ends before the next one starts
NextSeq ==
    \/ Step(1, MaxOps, MaxFaults, MaxClock, Trees, Flows, UploadBatches)
    \/ Expire
    \/ ClearCache

SpecSeq == Init /\ [][NextSeq]_vars

\* one request at a time, on a store that another team's project "p2"
\* shares: its explorer was opened and one file was uploaded to its root
\* before the sessions on "p1" began
SharedTag == <<"file-upload", strftime(1)>>

SharedKey == FileKey("p2", SharedTag, << >>, TmpName(0, 1))

InitShared ==
    /\ projects = Projects
    /\ nodes = <<FolderDoc("p2", "/", NoParent, << >>),
                 FileDoc("p2", "a", 1, <<"a">>, 1, SharedTag, SharedKey)>>
    /\ versions = << >>
    /\ blobs = Put(<< >>, SharedKey, <<"file", 0, <<"a">>>>)
    /\ tmpdirs = {}
    /\ clock = 1
    /\ op = [r \in Req |-> Idle]
    /\ started = 0
    /\ faults = 0
    /\ lastCall = NoCall
    /\ uplog = <<[proj |-> "p2", path |-> <<"a">>, id |-> 2]>>
    /\ cache = << >>
    /\ NoSession

SpecShared == InitShared /\ [][NextSeq]_vars

\* ------------------------------------------------------------ read paths
RECURSIVE SortByTimestampDesc(_, _)
SortByTimestampDesc(ns, S) ==
    IF S = {} THEN << >>
    ELSE LET m == CHOOSE i \in S : \A j \in S : ns[i].timestamp >= ns[j].timestamp
         IN <<m>> \o SortByTimestampDesc(ns, S \ {m})

\* show_file_versions: find({projectId, path}).sort(fileMeta.timestamp, -1),
\* as the sequence of the ids it lists
show_file_versions(ns, p, path) ==
    SortByTimestampDesc(ns, PathMatches(ns, p, path))

\* ------------------------------------------ Campaign Batch Extractor
\* A character outside ASCII is written as its code point: "U+0663" is the
\* one character ARABIC-INDIC DIGIT THREE, "U+FF11" is FULLWIDTH DIGIT ONE.
\* the characters of the phone strings: two ASCII digits and a separator,
\* or an ASCII digit, a separator and a decimal digit of another script
PhoneChars == {"1", "5", "-"}

WidePhoneChars == {"1", "U+0663", "-"}

PhoneStrings ==
    UNION {[1..n -> PhoneChars] \cup [1..n -> WidePhoneChars] :
           n \in 0..MaxPhoneLen}

\* the decimal digits (category Nd) of the inputs that are not ASCII
NdChars == {"U+0663", "U+FF11"}

\* the characters that \D does not match: the pattern is a str pattern, so
\* \D is the complement of every Unicode decimal digit
DigitChars == {"0", "1", "2", "3", "4", "5", "6", "7", "8", "9"} \cup NdChars

\* re.sub(r'\D', '', str(phone))
RECURSIVE re_sub_nondigits(_)
re_sub_nondigits(str) ==
    IF str = << >> THEN << >>
    ELSE (IF Head(str) \in DigitChars THEN <<Head(str)>> ELSE << >>)
         \o re_sub_nondigits(Tail(str))

\* digits.startswith("1")
startswith1(digits) == Len(digits) >= 1 /\ digits[1] = "1"

\* clean_us_phone of a.py: the 11-digit test comes first
clean_us_phone_a(ph) ==
    IF ph = Missing THEN << >>
    ELSE LET digits == re_sub_nondigits(ph)
         IN IF startswith1(digits) /\ Len(digits) = 11 THEN digits
            ELSE IF Len(digits) = 10 THEN <<"1">> \o digits
            ELSE digits

\* clean_us_phone of app.py
clean_us_phone(ph) ==
    IF ph = Missing THEN << >>
    ELSE LET digits == re_sub_nondigits(ph)
         IN IF Len(digits) = 10 THEN <<"1">> \o digits
            ELSE IF startswith1(digits) /\ Len(digits) = 11 THEN digits
            ELSE digits

\* selected["registrant_phone"].apply(clean_us_phone) on one cell, with
\* each copy of the function
CleanPhone ==
    /\ ~cleaned.done
    /\ cleaned' = [done |-> TRUE, app |-> clean_us_phone(phone),
                   a |-> clean_us_phone_a(phone)]
    /\ UNCHANGED <<store, phone, rows, start_index, deleted_indices, event>>

InitClean ==
    /\ InitStore
    /\ phone \in PhoneStrings \cup {Missing}
    /\ cleaned = NotCleaned
    /\ rows = 1
    /\ start_index = 0
    /\ deleted_indices = {}
    /\ event = "none"

SpecClean == InitClean /\ [][CleanPhone]_vars

\* batch_size = 10
batch_size == 10

\* end = min(start + batch_size, len(df_excel))
BatchEnd(start, len) ==
    IF start + batch_size < len THEN start + batch_size ELSE len

\* the first script run of a session on a file of 1..MaxRows rows: the
\* session state is created and the number input returns its default
InitBatch ==
    /\ InitStore
    /\ phone = Missing
    /\ cleaned = NotCleaned
    /\ rows \in 1..MaxRows
    /\ start_index = 0
    /\ deleted_indices = {}
    /\ event = "first"

\* the user changes the start row: st.number_input returns a value of
\* min_value..max_value and start_index = start_input - 1
StartRowInput ==
    /\ event # "none"
    /\ \E start_input \in 1..rows :
          /\ start_input # start_index + 1
          /\ start_index' = start_input - 1
    /\ event' = "input"
    /\ UNCHANGED <<store, phone, cleaned, rows, deleted_indices>>

\* a Delete button of a listed row: deleted_indices.add(orig_index), rerun
Delete ==
    /\ event # "none"
    /\ Cardinality(deleted_indices) < MaxDeleted
    /\ \E i \in start_index .. BatchEnd(start_index, rows) - 1 :
          /\ i \notin deleted_indices
          /\ deleted_indices' = deleted_indices \cup {i}
    /\ event' = "delete"
    /\ UNCHANGED <<store, phone, cleaned, rows, start_index>>

\* Previous Batch: the click counts only if start_index >= batch_size
PreviousBatch ==
    /\ event # "none"
    /\ IF start_index >= batch_size
       THEN /\ start_index' = start_index - batch_size
            /\ deleted_indices' = {}
       ELSE UNCHANGED <<start_index, deleted_indices>>
    /\ event' = "prev"
    /\ UNCHANGED <<store, phone, cleaned, rows>>

\* Next Batch as in a.py: the click always counts
NextBatchUnguarded ==
    /\ event # "none"
    /\ start_index' = start_index + batch_size
    /\ deleted_indices' = {}
    /\ event' = "next"
    /\ UNCHANGED <<store, phone, cleaned, rows>>

\* Next Batch: the click counts only if end < len(df_excel)
NextBatch ==
    /\ event # "none"
    /\ IF BatchEnd(start_index, rows) < rows
       THEN /\ start_index' = start_index + batch_size
            /\ deleted_indices' = {}
       ELSE UNCHANGED <<start_index, deleted_indices>>
    /\ event' = "next"
    /\ UNCHANGED <<store, phone, cleaned, rows>>

NextExtractor ==
    \/ StartRowInput
    \/ Delete
    \/ PreviousBatch
    \/ NextBatch

SpecBatch == InitBatch /\ [][NextExtractor]_vars

\* ------------------------------------------------- vocabulary of the claims
LatestAt(ns, p, path) ==
    {i \in PathMatches(ns, p, path) : ns[i].type = "file" /\ ns[i].isLatest}

HasVersion(p) == \E k \in DOMAIN versions : versions[k].projectId = p

UploadsTo(p, path) ==
    {k \in DOMAIN uplog : uplog[k].proj = p /\ uplog[k].path = path}

LastOf(S) == CHOOSE k \in S : \A j \in S : j <= k

NodePaths == {nodes[i].path : i \in DOMAIN nodes}

TreePaths(t) ==
    UNION {{t[d].dir \o <<t[d].files[f]>> : f \in DOMAIN t[d].files} :
           d \in DOMAIN t}

EarlySteps == {"extract", "stage", "zip", "upzip", "version"}

\* the path holds nothing but the nodes of single-file uploads that
\* returned True, and no upload to it stands between its demotion and its
\* insert
OnlyUploadsAt(p, path) ==
    /\ ~HasVersion(p)
    /\ \A r \in Req : ~(op[r].kind = "upload" /\ op[r].pc = "upl_insert"
                        /\ op[r].proj = p /\ op[r].uppath = path)
    /\ \A i \in PathMatches(nodes, p, path) :
          /\ nodes[i].type = "file"
          /\ \E k \in DOMAIN uplog : uplog[k].id = i

\* C1: after N >= 1 non-overlapping successful single-file uploads to one
\* (project, path) that holds no other node, exactly one node at the path is
\* latest, it is the node the last call inserted, and the history lists
\* exactly the N inserted nodes, timestamps newest first.
C1_SequentialUploads ==
    \A p \in Projects, path \in NodePaths :
       LET ks == UploadsTo(p, path)
           h == show_file_versions(nodes, p, path)
       IN (ks # {} /\ OnlyUploadsAt(p, path)) =>
             /\ LatestAt(nodes, p, path) = {uplog[LastOf(ks)].id}
             /\ Len(h) = Cardinality(ks)
             /\ {h[n] : n \in DOMAIN h} = {uplog[k].id : k \in ks}
             /\ \A a, b \in DOMAIN h :
                   a < b => nodes[h[a]].timestamp >= nodes[h[b]].timestamp

C1_Witness ==
    \E p \in Projects, path \in NodePaths :
       /\ Cardinality(UploadsTo(p, path)) = 2
       /\ OnlyUploadsAt(p, path)
       /\ \E r \in Req : op[r].kind = "upload" /\ op[r].pc = "upl_ret"
                         /\ op[r].proj = p /\ op[r].uppath = path

\* C2: in every reachable state, every (project, path) of the single-file
\* flow that has a completed upload has exactly one latest node.
C2_ExactlyOneLatestAtAnyTime ==
    \A p \in Projects, path \in NodePaths :
       (UploadsTo(p, path) # {} /\ ~HasVersion(p)) =>
          Cardinality(LatestAt(nodes, p, path)) = 1

\* C3: with non-overlapping snapshots and single-file uploads, failed ones
\* included, no (project, path) ever has two latest file nodes.
C3_AtMostOneLatest ==
    \A p \in Projects, path \in NodePaths :
       Cardinality(LatestAt(nodes, p, path)) <= 1

C3_Witness ==
    \E r \in Req : /\ op[r].kind = "snap" /\ op[r].pc = "done"
                   /\ \E i \in op[r].written :
                         /\ UploadsTo(op[r].proj, nodes[i].path) # {}
                         /\ Cardinality(PathMatches(nodes, op[r].proj,
                                                    nodes[i].path)) >= 2
                         /\ LatestAt(nodes, op[r].proj, nodes[i].path) = {i}

\* C4: when a snapshot returns, every file node of its project that existed
\* before it and that its walk did not write is not latest, whether or not
\* its path is in the new tree; nodes of other projects keep their flag.
C4_GlobalInvalidation ==
    \A r \in Req :
       (op[r].kind = "snap" /\ op[r].pc = "done") =>
          \A i \in DOMAIN op[r].pre :
             /\ (op[r].pre[i].projectId = op[r].proj
                 /\ op[r].pre[i].type = "file" /\ i \notin op[r].written)
                   => ~nodes[i].isLatest
             /\ op[r].pre[i].projectId # op[r].proj
                   => nodes[i] = op[r].pre[i]

C4_Witness ==
    \E r \in Req :
       /\ op[r].kind = "snap" /\ op[r].pc = "done"
       /\ \E i, j \in DOMAIN op[r].pre :
             /\ op[r].pre[i].projectId = op[r].proj
             /\ op[r].pre[i].type = "file" /\ op[r].pre[i].isLatest
             /\ op[r].pre[i].path \notin TreePaths(op[r].tree)
             /\ ~nodes[i].isLatest
             /\ op[r].pre[j].projectId # op[r].proj
             /\ op[r].pre[j].isLatest /\ nodes[j].isLatest

\* C5: a snapshot of K files of which M < K fail their blob upload returns
\* files_uploaded = K - M and the Version it inserted, and its walk wrote a
\* file node for exactly the K - M files whose upload succeeded.
C5_BestEffortCount ==
    \A r \in Req :
       LET K == Cardinality(TreePaths(op[r].tree))
           M == Cardinality(op[r].failedFiles)
       IN (op[r].kind = "snap" /\ op[r].pc = "done" /\ M < K) =>
             /\ op[r].result = K - M
             /\ \E k \in DOMAIN versions \ DOMAIN op[r].preV :
                   /\ versions[k].projectId = op[r].proj
                   /\ versions[k].version = op[r].label
             /\ Cardinality(op[r].written) = K - M
             /\ {nodes[i].path : i \in op[r].written}
                   = TreePaths(op[r].tree) \ op[r].failedFiles
             /\ \A i \in op[r].written :
                   /\ nodes[i].type = "file"
                   /\ nodes[i].projectId = op[r].proj
                   /\ nodes[i].versionTag = <<op[r].label>>

C5_Witness ==
    \E r \in Req : /\ op[r].kind = "snap" /\ op[r].pc = "done"
                   /\ Cardinality(TreePaths(op[r].tree)) = 2
                   /\ Cardinality(op[r].failedFiles) = 1
                   /\ op[r].result = 1

\* C6: a snapshot that fails in staging, bundling, the bundle upload or the
\* bundle checksum leaves the node and version collections as they were.
C6_EarlyFailureWritesNothing ==
    \A r \in Req :
       (op[r].kind = "snap" /\ op[r].pc = "failed"
        /\ op[r].failedAt \in EarlySteps) =>
          nodes = op[r].pre /\ versions = op[r].preV

C6_Witness ==
    \E r \in Req : /\ op[r].kind = "snap" /\ op[r].pc = "failed"
                   /\ op[r].failedAt = "version"
                   /\ LatestAt(nodes, op[r].proj, <<"a">>) # {}
                   /\ HasVersion(op[r].proj)

\* C7: a snapshot that has inserted its Version cannot fail: no failure
\* leaves the operation from the tree walk.
C7_WalkNeverFails ==
    \A r \in Req :
       (op[r].kind = "snap" /\ op[r].pc = "failed") =>
          op[r].failedAt \in EarlySteps

\* C8: when a snapshot ends, by return or by exception, none of the
\* temporary directories it created is left.
C8_StagingReleased ==
    \A r \in Req :
       (op[r].kind = "snap" /\ op[r].pc \in {"done", "failed"}) =>
          \A d \in tmpdirs : d[1] # op[r].serial

\* C9: a second get_or_create_folder_node call with the project and the
\* segments of the call before it returns the same node and creates nothing.
C9_ResolveTwice ==
    \A r \in Req :
       (op[r].kind = "resolve" /\ op[r].pc = "done"
        /\ op[r].prev.proj = op[r].proj /\ op[r].prev.segs = op[r].segs
        /\ op[r].prev.after = op[r].pre) =>
          op[r].result = op[r].prev.result /\ nodes = op[r].pre

C9_Witness ==
    \E r \in Req : /\ op[r].kind = "resolve" /\ op[r].pc = "done"
                   /\ op[r].prev.proj = op[r].proj
                   /\ op[r].prev.segs = op[r].segs
                   /\ op[r].segs = <<"sub">>
                   /\ op[r].prev.after = op[r].pre
                   /\ nodes[op[r].result].path = <<"sub">>

\* C10: in every reachable state, overlapping requests included, no two
\* folder nodes share (project, parent, name).
C10_NoDuplicateFolders ==
    \A i, j \in FolderIds(nodes) :
       (i # j /\ nodes[i].projectId = nodes[j].projectId
        /\ nodes[i].parent = nodes[j].parent) => nodes[i].name # nodes[j].name

\* the folder nodes of a project that have no parent
RootsOf(ns, p) ==
    {i \in DOMAIN ns : ns[i].projectId = p /\ ns[i].type = "folder"
                       /\ ns[i].parent = NoParent}

\* C11: with non-overlapping root resolutions, snapshots and single-file
\* uploads, a project that has nodes has exactly one folder node without a
\* parent; every resolution of the empty path returns that node, which is
\* named "/" with path "/", and creates it only when the project had none.
C11_SingleRoot ==
    /\ \A p \in Projects :
          /\ Cardinality(RootsOf(nodes, p)) <= 1
          /\ (\E i \in DOMAIN nodes : nodes[i].projectId = p)
                => Cardinality(RootsOf(nodes, p)) = 1
    /\ \A r \in Req :
          (op[r].kind \in {"resolve", "render"} /\ op[r].pc = "done"
           /\ op[r].segs = << >>) =>
             /\ RootsOf(nodes, op[r].proj) = {op[r].result}
             /\ nodes[op[r].result]
                   = FolderDoc(op[r].proj, "/", NoParent, << >>)
             /\ IF RootsOf(op[r].pre, op[r].proj) # {}
                THEN /\ nodes = op[r].pre
                     /\ op[r].result \in RootsOf(op[r].pre, op[r].proj)
                ELSE nodes = Append(op[r].pre,
                                    FolderDoc(op[r].proj, "/", NoParent, << >>))

C11_Witness ==
    \E r \in Req : /\ op[r].kind = "resolve" /\ op[r].pc = "done"
                   /\ op[r].segs = << >>
                   /\ RootsOf(op[r].pre, op[r].proj) # {}
                   /\ HasVersion(op[r].proj)
                   /\ \E k \in DOMAIN uplog : uplog[k].proj = op[r].proj

\* the paths of a project that have a latest file node
LatestPaths(ns, p) ==
    {ns[i].path : i \in {j \in DOMAIN ns : /\ ns[j].projectId = p
                                           /\ ns[j].type = "file"
                                           /\ ns[j].isLatest}}

\* C12: with overlapping requests, a file node a snapshot has written loses
\* its latest flag, before that snapshot has returned, only by the step of
\* another request on the same project: that request's global invalidation,
\* its demotion of the node's path or its deletion of the project's nodes.
\* The witness is the outcome the interleaving leaves: two completed
\* snapshots of one project, one of them with a written file that is latest
\* and one that is not, and a set of latest paths that is the result of
\* neither serial order.
C12_DemotedOnlyByOverlap ==
    [][\A r \in Req :
          op[r].kind = "snap" =>
             \A i \in op[r].written :
                (nodes[i].isLatest /\ ~nodes'[i].isLatest) =>
                   \E q \in Req \ {r} :
                      /\ op[q].proj = op[r].proj
                      /\ \/ op[q].pc = "invalidate" /\ op'[q].pc # "invalidate"
                         \/ op[q].pc = "del_nodes" /\ op'[q].pc # "del_nodes"
                         \/ /\ op[q].pc = "upl_demote"
                            /\ op'[q].pc = "upl_insert"
                            /\ op[q].uppath = nodes[i].path]_vars

C12_Witness ==
    \E r, q \in Req :
       /\ r # q
       /\ op[r].kind = "snap" /\ op[r].pc = "done" /\ op[r].failedFiles = {}
       /\ op[q].kind = "snap" /\ op[q].pc = "done" /\ op[q].failedFiles = {}
       /\ op[q].proj = op[r].proj
       /\ LatestPaths(nodes, op[r].proj)
             \notin {TreePaths(op[r].tree), TreePaths(op[q].tree)}
       /\ \E i, j \in op[r].written :
             /\ nodes[i].type = "file" /\ nodes[i].isLatest
             /\ nodes[j].type = "file" /\ ~nodes[j].isLatest

\* C13: when a snapshot or a single-file upload returns to the UI, by value
\* or by exception, no cache entry is left for a children listing that the
\* operation changed, so the next read of that listing queries the store.
C13_CacheInvalidatedOnReturn ==
    [][\A r \in Req :
          (op[r].kind \in {"snap", "upload"} /\ op[r].pc \in {"done", "failed"}
           /\ op'[r].pc \in {"idle", "rootfind"}) =>
             \A k \in DOMAIN cache' :
                get_file_tree(nodes', k[1], k[2])
                   = get_file_tree(op[r].pre, k[1], k[2])]_vars

\* C14: the step in which a snapshot that has uploaded its bundle and
\* computed the checksum inserts its Version appends exactly one record with
\* the snapshot's project and label, whatever labels exist; the step in
\* which a project deletion deletes the Versions removes those of its
\* project and keeps the others as they are; no other step of a snapshot,
\* an upload, a render or a deletion changes the collection.
C14_VersionsAppendOnly ==
    [][LET ins == {r \in Req : /\ op[r].kind = "snap"
                               /\ op[r].pc = "version_ins"
                               /\ op'[r].pc = "invalidate"}
           del == {r \in Req : /\ op[r].kind = "delete"
                               /\ op[r].pc = "del_versions"
                               /\ op'[r].pc = "del_project"}
       IN IF ins # {}
          THEN \E r \in ins :
                  /\ Len(versions') = Len(versions) + 1
                  /\ SubSeq(versions', 1, Len(versions)) = versions
                  /\ versions'[Len(versions')].projectId = op[r].proj
                  /\ versions'[Len(versions')].version = op[r].label
          ELSE IF del # {}
          THEN \E r \in del :
                  versions' = SelectSeq(versions,
                                 LAMBDA v : v.projectId # op[r].proj)
          ELSE versions' = versions]_vars

C14_Witness ==
    \E r \in Req :
       /\ op[r].kind = "upload" /\ op[r].pc = "upl_ret" /\ op[r].result = 1
       /\ Len(versions) = 2
       /\ versions[1].projectId = op[r].proj
       /\ versions[2].projectId = op[r].proj
       /\ versions[1].version = versions[2].version
       /\ versions[1].createdAt < versions[2].createdAt

\* the folder nodes of a project at a path
FoldersAt(ns, p, path) ==
    {i \in FolderIds(ns) : ns[i].projectId = p /\ ns[i].path = path}

\* the ids a listing shows
ListedIds(l) == {l[n].id : n \in DOMAIN l}

\* C15: when a snapshot of a project that had no nodes returns and none of
\* its uploads failed, files_uploaded is the number of staged files; every
\* staged directory has exactly one folder node with its root-relative path;
\* every staged file has exactly one node at its path, a latest file node
\* whose parent is the folder node of its directory; and the children
\* listing of each directory's folder shows exactly the folder nodes of its
\* direct sub-directories and the nodes of its files.
C15_FreshSnapshot ==
    \A r \in Req :
       (/\ op[r].kind = "snap" /\ op[r].pc = "done"
        /\ op[r].failedFiles = {}
        /\ \A i \in DOMAIN op[r].pre : op[r].pre[i].projectId # op[r].proj) =>
          LET p == op[r].proj
              t == op[r].tree
              folderOf(d) == CHOOSE i \in FoldersAt(nodes, p, t[d].dir) : TRUE
              fileAt(d, f) ==
                 CHOOSE i \in PathMatches(nodes, p, t[d].dir \o <<t[d].files[f]>>) :
                    TRUE
          IN /\ op[r].result = Cardinality(TreePaths(t))
             /\ \A d \in DOMAIN t :
                   /\ Cardinality(FoldersAt(nodes, p, t[d].dir)) = 1
                   /\ \A f \in DOMAIN t[d].files :
                         LET path == t[d].dir \o <<t[d].files[f]>>
                         IN /\ Cardinality(PathMatches(nodes, p, path)) = 1
                            /\ nodes[fileAt(d, f)].type = "file"
                            /\ nodes[fileAt(d, f)].isLatest
                            /\ nodes[fileAt(d, f)].name = t[d].files[f]
                            /\ nodes[fileAt(d, f)].parent = folderOf(d)
                   /\ ListedIds(get_file_tree(nodes, p, folderOf(d)))
                         = {folderOf(e) : e \in
                              {x \in DOMAIN t :
                                  /\ Len(t[x].dir) = Len(t[d].dir) + 1
                                  /\ SubSeq(t[x].dir, 1, Len(t[d].dir))
                                        = t[d].dir}}
                           \cup {fileAt(d, f) : f \in DOMAIN t[d].files}

C15_Witness ==
    \E r \in Req :
       /\ op[r].kind = "snap" /\ op[r].pc = "done" /\ op[r].failedFiles = {}
       /\ op[r].tree = TreeAB /\ op[r].result = 2
       /\ op[r].pre # << >>
       /\ \A i \in DOMAIN op[r].pre : op[r].pre[i].projectId # op[r].proj
       /\ Len(get_file_tree(nodes, op[r].proj,
                            CHOOSE i \in RootsOf(nodes, op[r].proj) : TRUE)) = 2

\* C16: with non-overlapping requests, a file the walk of a snapshot wrote
\* at a path that had nodes before the snapshot is one of those nodes, now
\* carrying the snapshot's record; the nodes at the path are the same ids as
\* before and the history of the path lists as many records as before.  A
\* path without a node gets exactly one.
C16_UpsertInPlace ==
    \A r \in Req :
       op[r].kind = "snap" =>
          \A i \in op[r].written :
             LET p == op[r].proj
                 path == nodes[i].path
                 before == PathMatches(op[r].pre, p, path)
             IN /\ nodes[i].type = "file"
                /\ nodes[i].versionTag = <<op[r].label>>
                /\ Len(show_file_versions(nodes, p, path))
                      = Cardinality(PathMatches(nodes, p, path))
                /\ IF before # {}
                   THEN /\ i \in before
                        /\ PathMatches(nodes, p, path) = before
                        /\ nodes[i].timestamp >= op[r].pre[i].timestamp
                   ELSE /\ i \notin DOMAIN op[r].pre
                        /\ PathMatches(nodes, p, path) = {i}

C16_Witness ==
    \E r \in Req :
       /\ op[r].kind = "snap" /\ op[r].pc = "done"
       /\ \E i \in op[r].written :
             /\ i \in DOMAIN op[r].pre
             /\ op[r].pre[i].type = "file"
             /\ op[r].pre[i].versionTag = <<op[r].label>>
             /\ op[r].pre[i].path = nodes[i].path
             /\ show_file_versions(nodes, op[r].proj, nodes[i].path) = <<i>>
             /\ nodes[i].timestamp > op[r].pre[i].timestamp

\* C17: with non-overlapping requests, when upload_single_file returns True
\* the collection is the one from before the call with one node appended,
\* the latest file node of the upload at its path; of the earlier nodes only
\* those of the project at exactly that path differ, and only in isLatest,
\* which is now false; the version collection is unchanged.
C17_UploadFrame ==
    \A r \in Req :
       (op[r].kind = "upload" /\ op[r].pc = "upl_ret" /\ op[r].result = 1) =>
          /\ Len(nodes) = Len(op[r].pre) + 1
          /\ nodes[Len(nodes)]
                = FileDoc(op[r].proj, op[r].upname, op[r].folder, op[r].uppath,
                          op[r].upnow, op[r].uptag, op[r].upblob)
          /\ \A i \in DOMAIN op[r].pre :
                IF /\ op[r].pre[i].projectId = op[r].proj
                   /\ op[r].pre[i].path = op[r].uppath
                   /\ op[r].pre[i].type = "file"
                THEN nodes[i] = [op[r].pre[i] EXCEPT !.isLatest = FALSE]
                ELSE nodes[i] = op[r].pre[i]
          /\ versions = op[r].preV

C17_Witness ==
    \E r \in Req :
       /\ op[r].kind = "upload" /\ op[r].pc = "upl_ret" /\ op[r].result = 1
       /\ op[r].preV # << >>
       /\ \E i, j \in DOMAIN op[r].pre :
             /\ op[r].pre[i].projectId = op[r].proj
             /\ op[r].pre[i].path = op[r].uppath
             /\ op[r].pre[i].isLatest /\ ~nodes[i].isLatest
             /\ op[r].pre[j].projectId = op[r].proj
             /\ op[r].pre[j].path # op[r].uppath
             /\ op[r].pre[j].isLatest /\ nodes[j].isLatest

\* alphabetical order takes a capital letter for its small letter
Lower(ch) == IF ch = "S" THEN "s" ELSE ch

AlphaOrd(n) == [k \in DOMAIN Chars(n) |-> CodePoint(Lower(Chars(n)[k]))]

\* name n stands at the place of name m or before it in alphabetical order
Alphabetical(n, m) == ~SeqLess(AlphaOrd(m), AlphaOrd(n))

\* C18: for every project and every node taken as the parent, the children
\* listing shows each node of the project with that parent that is a folder
\* or a latest file exactly once, with its stored document, and nothing
\* else; every folder comes before every file, and within the folders and
\* within the files the names are in alphabetical order.
C18_ChildrenListing ==
    \A p \in Projects, parent \in DOMAIN nodes :
       LET l == get_file_tree(nodes, p, parent)
           shown == {i \in DOMAIN nodes :
                        /\ nodes[i].projectId = p /\ nodes[i].parent = parent
                        /\ \/ nodes[i].type = "folder"
                           \/ nodes[i].type = "file" /\ nodes[i].isLatest}
       IN /\ ListedIds(l) = shown
          /\ Len(l) = Cardinality(shown)
          /\ \A n \in DOMAIN l : l[n].doc = nodes[l[n].id]
          /\ \A a, b \in DOMAIN l :
                a < b =>
                   /\ l[b].doc.type = "folder" => l[a].doc.type = "folder"
                   /\ l[a].doc.type = l[b].doc.type
                         => Alphabetical(l[a].doc.name, l[b].doc.name)

\* C19: a folder node that existed when a snapshot or a single-file upload
\* started is the same document, a folder with its name, parent and path,
\* at every step of the operation and when it ends.
C19_FoldersStayFolders ==
    \A r \in Req :
       op[r].kind \in {"snap", "upload"} =>
          \A i \in DOMAIN op[r].pre :
             op[r].pre[i].type = "folder" => nodes[i] = op[r].pre[i]

\* C20: no exception leaves upload_single_file: a call ends with True or
\* with False.  When it has ended, the temporary file of its payload is
\* gone; when it ended with False, after a failure of the blob upload or of
\* the checksum, the node collection is the one from before the call.
C20_UploadFailureReturnsFalse ==
    \A r \in Req :
       op[r].kind = "upload" =>
          /\ op[r].pc # "failed"
          /\ op[r].pc = "upl_ret" =>
                /\ TmpFile(op[r]) \notin tmpdirs
                /\ op[r].result = 1 <=> op[r].failedAt = ""
                /\ op[r].result = 0
                      <=> op[r].failedAt \in {"upl_blob", "upl_sum"}
                /\ op[r].result = 0 => nodes = op[r].pre

\* C21: with non-overlapping snapshots and single-file uploads, a latest
\* file node at a path has a timestamp that no node at the path exceeds,
\* and the history of the path starts with a record of that timestamp;
\* also after a snapshot's upsert picked one of several nodes that earlier
\* uploads left at the path.
C21_LatestIsNewest ==
    \A p \in Projects, path \in NodePaths :
       \A i \in LatestAt(nodes, p, path) :
          /\ \A j \in PathMatches(nodes, p, path) :
                nodes[i].timestamp >= nodes[j].timestamp
          /\ nodes[show_file_versions(nodes, p, path)[1]].timestamp
                = nodes[i].timestamp

C21_Witness ==
    \E r \in Req :
       /\ op[r].kind = "snap" /\ op[r].pc = "done"
       /\ \E i \in op[r].written :
             LET ks == UploadsTo(op[r].proj, nodes[i].path)
             IN /\ Cardinality(ks) >= 2
                /\ \E k \in ks : uplog[k].id = i /\ k # LastOf(ks)
                /\ LatestAt(nodes, op[r].proj, nodes[i].path) = {i}
                /\ show_file_versions(nodes, op[r].proj, nodes[i].path)[1] = i

\* C22: when a snapshot returns, the blob at the key made of its project,
\* its label and the name of its staged directory is its own archive; every
\* Version of that project and label references that key, whatever tree and
\* flow produced it; the Versions from before the snapshot are unchanged, so
\* they keep the checksum of their own archive; and the checksum of the
\* stored blob is the one the newest Version records.
C22_BundleKeyOverwritten ==
    \A r \in Req :
       (op[r].kind = "snap" /\ op[r].pc = "done") =>
          LET key == <<op[r].proj, <<op[r].label>>, <<op[r].stem>>>>
          IN /\ key \in DOMAIN blobs
             /\ blobs[key] = Archive(op[r].tree, op[r].zipped)
             /\ \A k \in DOMAIN versions :
                   (/\ versions[k].projectId = op[r].proj
                    /\ versions[k].version = op[r].label) =>
                      /\ versions[k].public_id = key
                      /\ k \in DOMAIN op[r].preV
                            => versions[k] = op[r].preV[k]
             /\ versions[Len(versions)].public_id = key
             /\ versions[Len(versions)].checksum
                   = compute_checksum(blobs[key])

\* C23: for every input that is not missing, both copies of clean_us_phone
\* return the same string; it consists of digits, starts with "1" and has
\* 10 or 11 characters; an input with exactly 10 digits gives "1" followed
\* by its digits and an input with 11 digits of which the first is "1"
\* gives its digits.
C23_CleanUsPhone ==
    (cleaned.done /\ phone # Missing) =>
       LET out == cleaned.app
           digits == SelectSeq(phone, LAMBDA c : c \in DigitChars)
       IN /\ cleaned.a = out
          /\ \A n \in DOMAIN out : out[n] \in DigitChars
          /\ Len(out) \in {10, 11}
          /\ out[1] = "1"
          /\ Len(digits) = 10 => out = <<"1">> \o digits
          /\ (Len(digits) = 11 /\ digits[1] = "1") => out = digits

\* C24: in a session of the batch extractor on a file of rows >= 1 rows,
\* every script run leaves 0 <= start_index < rows.  A Next Batch click adds
\* 10 to start_index and empties the deleted set if the current batch ends
\* before the last row, and changes nothing otherwise; a Previous Batch
\* click subtracts 10 and empties the set if start_index >= 10, and changes
\* nothing otherwise; a Delete click adds one row index to the set and keeps
\* start_index; a start-row input keeps the set.
C24_Pagination ==
    [][event' # "none" =>
          /\ rows' = rows
          /\ 0 <= start_index /\ start_index < rows
          /\ 0 <= start_index' /\ start_index' < rows
          /\ event' = "next" =>
                IF start_index + 10 < rows
                THEN start_index' = start_index + 10 /\ deleted_indices' = {}
                ELSE /\ start_index' = start_index
                     /\ deleted_indices' = deleted_indices
          /\ event' = "prev" =>
                IF start_index >= 10
                THEN start_index' = start_index - 10 /\ deleted_indices' = {}
                ELSE /\ start_index' = start_index
                     /\ deleted_indices' = deleted_indices
          /\ event' = "delete" =>
                /\ start_index' = start_index
                /\ \E i \in 0..(rows - 1) :
                      /\ i \notin deleted_indices
                      /\ deleted_indices' = deleted_indices \cup {i}
          /\ event' = "input" => deleted_indices' = deleted_indices]_vars

C24_Witness ==
    /\ event = "next"
    /\ rows = 21
    /\ start_index = 20
    /\ deleted_indices = {}

====
